---------------------------- MODULE Spec2Model ----------------------------
(***************************************************************************)
(* Model of zatrano/genericrepo: the generic GORM repository              *)
(* (repositories/base_repository.go), the session-backed auth handler     *)
(* (handlers/auth/auth_handler.go), the auth middleware                   *)
(* (middlewares/auth.go) and the root redirector (routes).                *)
(*                                                                         *)
(* The relational store is a function from ids to rows.  Every statement   *)
(* the repository sends to the store is one atomic step; Delete and        *)
(* BulkDelete send several statements, so they are modelled statement by   *)
(* statement and other requests may run between them.  A store statement   *)
(* may fail with a driver error, and a request may die between two         *)
(* statements.                                                             *)
(*                                                                         *)
(* Specifications:                                                         *)
(*   Spec      concurrent requests against the repository                  *)
(*   SeqSpec   one repository call at a time, observed by a test double    *)
(*             that records the statements, the result and the table as    *)
(*             it was when the call was entered                            *)
(***************************************************************************)
EXTENDS Integers, Sequences, FiniteSets, TLC

(***************************************************************************)
(* Bounds of the model.                                                    *)
(***************************************************************************)
MaxRows == 2
NumProcs == 2
MaxActor == 2
MaxSessions == 1

Ids == 1..MaxRows
Procs == 1..NumProcs
Actors == 1..MaxActor
Statuses == {"pending", "done"}

(***************************************************************************)
(* Rows of the entity table.  deleted_at is the gorm.DeletedAt marker      *)
(* (FALSE is NULL); deleted_by and updated_by are nullable actor ids       *)
(* (0 is NULL); a name is a sequence of characters.                        *)
(***************************************************************************)
NoRow == [present |-> FALSE, name |-> <<>>, status |-> "", type |-> "",
          updated_by |-> 0, deleted_by |-> 0, deleted_at |-> FALSE]

\* The row an INSERT of entity e makes.
NewRow(e) == [present |-> TRUE, name |-> e.name, status |-> e.status,
              type |-> e.type, updated_by |-> 0, deleted_by |-> 0,
              deleted_at |-> FALSE]

\* Entities handed to Create and BulkCreate by the repository's callers.
Entities == {[name |-> <<"a">>, status |-> s, type |-> "x"] : s \in Statuses}

\* A row that a default (scoped) GORM statement can see: present and not
\* soft-deleted.
Live(r) == r.present /\ ~r.deleted_at

\* The values ctx.Value("user_id") can have: nothing, a value that is not a
\* uint, or a uint.
CtxValues == {[t |-> "none", v |-> 0], [t |-> "int", v |-> 1]}
             \cup {[t |-> "uint", v |-> n] : n \in 0..MaxActor}

\* Mutant: the test userID == 0 is forgotten.
ValidActor_NoZeroTest(c) == c.t = "uint"

\* userID, ok := ctx.Value("user_id").(uint); !ok || userID == 0
ValidActor(c) == c.t = "uint" /\ c.v # 0

\* Field maps and conditions are maps from column names to values.
DataMaps == {[status |-> s] : s \in Statuses}
Conds == {<<>>} \cup {[status |-> s] : s \in Statuses}

\* Mutant: the condition is dropped.
Matches_Any(r, cond) == TRUE

\* WHERE condition built from a map: every key must match.
Matches(r, cond) == \A k \in DOMAIN cond : r[k] = cond[k]

\* SET of an UPDATE built from a field map.
ApplyFields(r, data) ==
  [f \in DOMAIN r |-> IF f \in DOMAIN data THEN data[f] ELSE r[f]]

\* Mutant: updated_by is set whatever updatedBy is.
WithUpdatedBy_Always(data, updatedBy) ==
  [f \in (DOMAIN data) \cup {"updated_by"} |->
     IF f = "updated_by" THEN updatedBy ELSE data[f]]

\* data["updated_by"] = updatedBy when updatedBy > 0
WithUpdatedBy(data, updatedBy) ==
  IF updatedBy > 0
  THEN [f \in (DOMAIN data) \cup {"updated_by"} |->
          IF f = "updated_by" THEN updatedBy ELSE data[f]]
  ELSE data

\* The ids, in ascending order, of a set of ids.
RECURSIVE SortedSeq(_)
SortedSeq(S) ==
  IF S = {} THEN <<>>
  ELSE LET m == CHOOSE x \in S : \A y \in S : x <= y
       IN <<m>> \o SortedSeq(S \ {m})

VARIABLES
  rows,      \* the entity table
  call,      \* per request: the Delete or BulkDelete it is inside
  probe,     \* TRUE when a test double observes the repository calls
  last,      \* what the test double saw of the latest call
  cancelled  \* per request: its context.Context is cancelled

repoVars == <<rows, call, probe, last>>

NoCtx == [t |-> "none", v |-> 0]

IdleCall == [pc |-> "idle", op |-> "none", ctx |-> NoCtx, actor |-> 0, id |-> 0,
             cond |-> <<>>, data |-> <<>>, entities |-> <<>>, idx |-> 0,
             result |-> "none", log |-> <<>>, snap |-> <<>>]

\* One store statement in a call's log: the statement, the row id it names
\* (0 for none), whether the store failed it, the rows it affected.
Ev(step, id, err, n) == [step |-> step, id |-> id, err |-> err, n |-> n]

\* No request is inside a repository call.
Quiet == \A q \in Procs : call[q].pc = "idle"

\* The record of a call as it is entered.
Entered(op) == [IdleCall EXCEPT !.op = op,
                  !.snap = IF probe THEN rows ELSE <<>>]

Logged(c, ev) == [c EXCEPT !.log = IF probe THEN Append(c.log, ev) ELSE c.log]

\* The call of request p returns res.
Done(p, c, res) ==
  /\ call' = [call EXCEPT ![p] = IdleCall]
  /\ last' = IF probe THEN [c EXCEPT !.pc = "done", !.result = res] ELSE last

\* The call of request p goes on at c.
Goes(p, c) ==
  /\ call' = [call EXCEPT ![p] = c]
  /\ last' = IF probe THEN IdleCall ELSE last

NextFreeId == Cardinality({i \in Ids : rows[i].present}) + 1

RepoInit ==
  /\ rows = [i \in Ids |-> NoRow]
  /\ call = [p \in Procs |-> IdleCall]
  /\ last = IdleCall

----------------------------------------------------------------------------
(***************************************************************************)
(* Create, BulkCreate, Update, BulkUpdate: one statement each.             *)
(***************************************************************************)
Create(p, e, fail) ==
  /\ call[p].pc = "idle"
  /\ NextFreeId <= MaxRows
  /\ rows' = IF fail THEN rows ELSE [rows EXCEPT ![NextFreeId] = NewRow(e)]
  /\ Done(p, Logged([Entered("Create") EXCEPT !.id = NextFreeId],
                    Ev("insert", NextFreeId, fail, IF fail THEN 0 ELSE 1)),
          IF fail THEN "store_error" ELSE "ok")
  /\ UNCHANGED probe

\* A single multi-row INSERT: all rows or none.
BulkCreate(p, es, fail) ==
  /\ call[p].pc = "idle"
  /\ Len(es) >= 1
  /\ NextFreeId + Len(es) - 1 <= MaxRows
  /\ rows' = IF fail THEN rows
             ELSE [i \in Ids |->
                     IF i >= NextFreeId /\ i < NextFreeId + Len(es)
                     THEN NewRow(es[i - NextFreeId + 1]) ELSE rows[i]]
  /\ Done(p, Logged([Entered("BulkCreate") EXCEPT !.id = NextFreeId,
                       !.idx = Len(es)],
                    Ev("insert", 0, fail, IF fail THEN 0 ELSE Len(es))),
          IF fail THEN "store_error" ELSE "ok")
  /\ UNCHANGED probe

\* result := ...Where("id = ?", id).Updates(data): RowsAffected is tested
\* before Error, so a failed statement (RowsAffected = 0) is reported as
\* "kayit bulunamadi".
Update(p, id, data, updatedBy, fail) ==
  LET d == WithUpdatedBy(data, updatedBy)
      hit == ~fail /\ Live(rows[id])
      n == IF hit THEN 1 ELSE 0
      res == IF n = 0 THEN "not_found"
             ELSE IF fail THEN "store_error" ELSE "ok"
  IN /\ call[p].pc = "idle"
     /\ rows' = IF hit THEN [rows EXCEPT ![id] = ApplyFields(rows[id], d)]
                ELSE rows
     /\ Done(p, Logged([Entered("Update") EXCEPT !.id = id,
                          !.actor = updatedBy, !.data = data],
                       Ev("update", id, fail, n)), res)
     /\ UNCHANGED probe

\* Mutant: an UPDATE with no condition is sent and changes every live row.
MissingWhere_Allowed(cond) == FALSE

\* gorm refuses an UPDATE whose WHERE holds nothing but the soft-delete
\* scope (gorm.ErrMissingWhereClause): gorm.Config does not set
\* AllowGlobalUpdate, and Where(condition) of an empty map adds no condition.
MissingWhere(cond) == DOMAIN cond = {}

\* ...Model(new(T)).Where(condition).Updates(data).Error
BulkUpdate(p, cond, data, updatedBy, fail) ==
  LET d == WithUpdatedBy(data, updatedBy)
      refused == MissingWhere(cond)
      hits == IF fail \/ refused THEN {}
              ELSE {i \in Ids : Live(rows[i]) /\ Matches(rows[i], cond)}
      c == [Entered("BulkUpdate") EXCEPT !.cond = cond, !.actor = updatedBy,
                                         !.data = data]
  IN /\ call[p].pc = "idle"
     /\ rows' = [i \in Ids |->
                   IF i \in hits THEN ApplyFields(rows[i], d) ELSE rows[i]]
     /\ IF refused
        THEN Done(p, c, "missing_where")
        ELSE Done(p, Logged(c, Ev("update", 0, fail, Cardinality(hits))),
                  IF fail THEN "store_error" ELSE "ok")
     /\ UNCHANGED probe

----------------------------------------------------------------------------
(***************************************************************************)
(* GetByID: First(&result, id) sees only live rows.                        *)
(***************************************************************************)
GetByIDResult(id, fail) ==
  IF fail THEN "store_error"
  ELSE IF id \in Ids /\ Live(rows[id]) THEN "ok" ELSE "not_found"

GetByID(p, id, fail) ==
  /\ call[p].pc = "idle"
  /\ Done(p, Logged([Entered("GetByID") EXCEPT !.id = id],
                    Ev("load", id, fail, 0)),
          GetByIDResult(id, fail))
  /\ UNCHANGED <<rows, probe>>

----------------------------------------------------------------------------
(***************************************************************************)
(* Delete: actor check, First, Update("deleted_by"), Delete.               *)
(***************************************************************************)
Delete(p, ctx, id) ==
  /\ call[p].pc = "idle"
  /\ IF ~ValidActor(ctx)
     THEN Done(p, [Entered("Delete") EXCEPT !.ctx = ctx, !.id = id],
               "missing_actor")
     ELSE Goes(p, [Entered("Delete") EXCEPT !.pc = "del_load", !.ctx = ctx,
                     !.actor = ctx.v, !.id = id])
  /\ UNCHANGED <<rows, probe>>

\* Mutant: the row is soft-deleted without the deleted_by stamp.
DeleteFirst_NoStamp(p, fail) ==
  LET c == Logged(call[p], Ev("load", call[p].id, fail, 0))
  IN /\ call[p].pc = "del_load"
     /\ IF fail THEN Done(p, c, "store_error")
        ELSE IF ~Live(rows[c.id]) THEN Done(p, c, "not_found")
        ELSE Goes(p, [c EXCEPT !.pc = "del_delete", !.entities = <<c.id>>,
                        !.idx = 1])
     /\ UNCHANGED <<rows, probe>>

\* Mutant: First without the soft-delete scope finds a soft-deleted row.
DeleteFirst_Unscoped(p, fail) ==
  LET c == Logged(call[p], Ev("load", call[p].id, fail, 0))
  IN /\ call[p].pc = "del_load"
     /\ IF fail THEN Done(p, c, "store_error")
        ELSE IF ~rows[c.id].present THEN Done(p, c, "not_found")
        ELSE Goes(p, [c EXCEPT !.pc = "del_stamp", !.entities = <<c.id>>,
                        !.idx = 1])
     /\ UNCHANGED <<rows, probe>>

\* tx.First(&entity, id)
DeleteFirst(p, fail) ==
  LET c == Logged(call[p], Ev("load", call[p].id, fail, 0))
  IN /\ call[p].pc = "del_load"
     /\ IF fail THEN Done(p, c, "store_error")
        ELSE IF ~Live(rows[c.id]) THEN Done(p, c, "not_found")
        ELSE Goes(p, [c EXCEPT !.pc = "del_stamp", !.entities = <<c.id>>,
                        !.idx = 1])
     /\ UNCHANGED <<rows, probe>>

\* UPDATE ... SET deleted_by = userID WHERE id = ? AND deleted_at IS NULL
StampRows(id, actor, fail) ==
  IF ~fail /\ Live(rows[id])
  THEN [rows EXCEPT ![id].deleted_by = actor]
  ELSE rows

\* Mutant: the row is removed (an unscoped, hard DELETE).
SoftDeleteRows_Hard(id, fail) ==
  IF ~fail /\ Live(rows[id])
  THEN [rows EXCEPT ![id] = NoRow]
  ELSE rows

\* UPDATE ... SET deleted_at = now WHERE id = ? AND deleted_at IS NULL
SoftDeleteRows(id, fail) ==
  IF ~fail /\ Live(rows[id])
  THEN [rows EXCEPT ![id].deleted_at = TRUE]
  ELSE rows

Affected(id, fail) == IF ~fail /\ Live(rows[id]) THEN 1 ELSE 0

\* Mutant: the error of the stamp is dropped and the delete goes on.
DeleteStamp_ErrDropped(p, fail) ==
  LET c == Logged(call[p], Ev("stamp", call[p].id, fail,
                              Affected(call[p].id, fail)))
  IN /\ call[p].pc = "del_stamp"
     /\ rows' = StampRows(c.id, c.actor, fail)
     /\ Goes(p, [c EXCEPT !.pc = "del_delete"])
     /\ UNCHANGED probe

\* tx.Model(&entity).Update("deleted_by", userID)
DeleteStamp(p, fail) ==
  LET c == Logged(call[p], Ev("stamp", call[p].id, fail,
                              Affected(call[p].id, fail)))
  IN /\ call[p].pc = "del_stamp"
     /\ rows' = StampRows(c.id, c.actor, fail)
     /\ IF fail THEN Done(p, c, "store_error")
        ELSE Goes(p, [c EXCEPT !.pc = "del_delete"])
     /\ UNCHANGED probe

\* tx.Delete(&entity)
DeleteSoft(p, fail) ==
  LET c == Logged(call[p], Ev("delete", call[p].id, fail,
                              Affected(call[p].id, fail)))
  IN /\ call[p].pc = "del_delete"
     /\ rows' = SoftDeleteRows(c.id, fail)
     /\ Done(p, c, IF fail THEN "store_error" ELSE "ok")
     /\ UNCHANGED probe

----------------------------------------------------------------------------
(***************************************************************************)
(* BulkDelete: actor check, Find, then per entity stamp and delete.        *)
(***************************************************************************)
BulkDelete(p, ctx, cond) ==
  /\ call[p].pc = "idle"
  /\ IF ~ValidActor(ctx)
     THEN Done(p, [Entered("BulkDelete") EXCEPT !.ctx = ctx, !.cond = cond],
               "missing_actor")
     ELSE Goes(p, [Entered("BulkDelete") EXCEPT !.pc = "bd_find", !.ctx = ctx,
                     !.actor = ctx.v, !.cond = cond])
  /\ UNCHANGED <<rows, probe>>

\* tx.Where(condition).Find(&entities)
BulkDeleteFind(p, fail) ==
  LET c == Logged(call[p], Ev("find", 0, fail, 0))
      found == SortedSeq({i \in Ids : Live(rows[i])
                                       /\ Matches(rows[i], c.cond)})
  IN /\ call[p].pc = "bd_find"
     /\ IF fail THEN Done(p, c, "store_error")
        ELSE IF found = <<>> THEN Done(p, c, "ok")
        ELSE Goes(p, [c EXCEPT !.pc = "bd_stamp", !.entities = found,
                        !.idx = 1, !.cond = IF probe THEN c.cond ELSE <<>>])
     /\ UNCHANGED <<rows, probe>>

BulkDeleteStamp(p, fail) ==
  LET id == call[p].entities[call[p].idx]
      c == Logged(call[p], Ev("stamp", id, fail, Affected(id, fail)))
  IN /\ call[p].pc = "bd_stamp"
     /\ rows' = StampRows(id, c.actor, fail)
     /\ IF fail THEN Done(p, c, "store_error")
        ELSE Goes(p, [c EXCEPT !.pc = "bd_delete"])
     /\ UNCHANGED probe

\* Mutant: the loop goes on after a failed soft delete.
BulkDeleteSoft_GoesOn(p, fail) ==
  LET id == call[p].entities[call[p].idx]
      c == Logged(call[p], Ev("delete", id, fail, Affected(id, fail)))
  IN /\ call[p].pc = "bd_delete"
     /\ rows' = SoftDeleteRows(id, fail)
     /\ IF c.idx = Len(c.entities)
        THEN Done(p, c, IF fail THEN "store_error" ELSE "ok")
        ELSE Goes(p, [c EXCEPT !.pc = "bd_stamp", !.idx = c.idx + 1])
     /\ UNCHANGED probe

BulkDeleteSoft(p, fail) ==
  LET id == call[p].entities[call[p].idx]
      c == Logged(call[p], Ev("delete", id, fail, Affected(id, fail)))
  IN /\ call[p].pc = "bd_delete"
     /\ rows' = SoftDeleteRows(id, fail)
     /\ IF fail THEN Done(p, c, "store_error")
        ELSE IF c.idx = Len(c.entities) THEN Done(p, c, "ok")
        ELSE Goes(p, [c EXCEPT !.pc = "bd_stamp", !.idx = c.idx + 1])
     /\ UNCHANGED probe

----------------------------------------------------------------------------
\* The request dies between two statements of a Delete or BulkDelete.
Crash(p) ==
  /\ call[p].pc \in {"del_stamp", "del_delete", "bd_stamp", "bd_delete"}
  /\ Done(p, call[p], "crashed")
  /\ UNCHANGED <<rows, probe>>

----------------------------------------------------------------------------
(***************************************************************************)
(* Requests against the repository.                                        *)
(***************************************************************************)
\* db.WithContext(ctx): a statement sent with a cancelled context fails
\* with the context's error and does not run; any statement can fail.
Fails(p) == IF cancelled[p] THEN {TRUE} ELSE BOOLEAN

\* The caller cancels the context of request p.
Cancel(p) ==
  /\ ~cancelled[p]
  /\ cancelled' = [cancelled EXCEPT ![p] = TRUE]
  /\ UNCHANGED repoVars

\* A request enters a repository operation.  GetByID takes no context: its
\* statement runs on r.db as it is.
Enter(p) ==
  \/ \E e \in Entities, fail \in Fails(p) : Create(p, e, fail)
  \/ \E es \in UNION {[1..n -> Entities] : n \in 1..MaxRows},
        fail \in Fails(p) : BulkCreate(p, es, fail)
  \/ \E id \in Ids, d \in DataMaps, a \in 0..MaxActor, fail \in Fails(p) :
        Update(p, id, d, a, fail)
  \/ \E c \in Conds, d \in DataMaps, a \in 0..MaxActor, fail \in Fails(p) :
        BulkUpdate(p, c, d, a, fail)
  \/ \E id \in Ids, fail \in BOOLEAN : GetByID(p, id, fail)
  \/ \E ctx \in CtxValues, id \in Ids : Delete(p, ctx, id)
  \/ \E ctx \in CtxValues, c \in Conds : BulkDelete(p, ctx, c)

\* A request that is inside Delete or BulkDelete sends its next statement.
Step(p) ==
  \/ \E fail \in Fails(p) : DeleteFirst(p, fail)
  \/ \E fail \in Fails(p) : DeleteStamp(p, fail)
  \/ \E fail \in Fails(p) : DeleteSoft(p, fail)
  \/ \E fail \in Fails(p) : BulkDeleteFind(p, fail)
  \/ \E fail \in Fails(p) : BulkDeleteStamp(p, fail)
  \/ \E fail \in Fails(p) : BulkDeleteSoft(p, fail)

----------------------------------------------------------------------------
(***************************************************************************)
(* Sessions.  A session value keeps the Go type it was stored with.  The   *)
(* session store, the auth service and the user table are collaborators    *)
(* of the handlers: a call to them has one of the outcomes their           *)
(* interface allows.                                                       *)
(***************************************************************************)
VARIABLES
  sessions,  \* the session store: session id -> session
  resp,      \* the latest request and its response
  loginObs   \* per Authenticate error: what the client saw of that Login

authVars == <<sessions, resp, loginObs>>

Sids == 1..MaxSessions

Nil == [t |-> "nil", n |-> 0, s |-> ""]
UintVal(n) == [t |-> "uint", n |-> n, s |-> ""]
StringVal(str) == [t |-> "string", n |-> 0, s |-> str]
BoolVal(b) == [t |-> "bool", n |-> IF b THEN 1 ELSE 0, s |-> ""]

\* A session that is not in the store: every Get gives nil.
NoSession == [stored |-> FALSE, user_id |-> Nil, user_type |-> Nil,
              user_status |-> Nil, user_name |-> Nil]

\* models.Panel, models.Dashboard
Panel == [t |-> "UserType", s |-> "panel"]
Dashboard == [t |-> "UserType", s |-> "dashboard"]
OtherType == [t |-> "UserType", s |-> "other"]

\* string(user.Type)
UserTypeString(ut) == ut.s

\* The users Authenticate can return: active users of each type.
Users == {[id |-> 1, type |-> Panel, status |-> TRUE, name |-> "pan"],
          [id |-> 2, type |-> Dashboard, status |-> TRUE, name |-> "das"],
          [id |-> 3, type |-> OtherType, status |-> TRUE, name |-> "oth"]}

UserIds == {u.id : u \in Users}

UserById(id) == CHOOSE u \in Users : u.id = id

\* What Authenticate returns: a user, or an error.
AuthOutcomes ==
  {[err |-> "nil", user |-> id] : id \in UserIds}
  \cup {[err |-> e, user |-> 0] :
          e \in {"ErrInvalidCredentials", "ErrUserInactive",
                 "ErrUserNotFound", "ErrOther"}}

\* What GetUserProfile returns.
ProfileOutcomes == {"nil", "ErrUserNotFound", "ErrOther"}

\* What the service's UpdatePassword returns.
UpdateOutcomes == {"nil", "ErrCurrentPasswordIncorrect", "ErrPasswordTooShort",
                   "ErrPasswordSameAsOld", "ErrUserNotFound", "ErrOther"}

\* Failures of the session store during one request: SessionStart, Save,
\* Destroy.
Faults == [start : BOOLEAN, save : BOOLEAN, destroy : BOOLEAN]

\* The failures a request can meet that makes only the calls in made.
FaultsOf(made) ==
  {f \in Faults : \A k \in {"start", "save", "destroy"} \ made : ~f[k]}

\* The representations the session backend gives a stored number.
NumberTypes == {"uint", "int", "float64"}

\* configssession.GetUserIDFromSession: user_id stored as an unsigned
\* integer, an integer or a floating-point number; anything else fails.
GetUserIDFromSession(sess) ==
  IF sess.user_id.t \in {"uint", "int", "float64"}
  THEN [ok |-> TRUE, id |-> sess.user_id.n]
  ELSE [ok |-> FALSE, id |-> 0]

\* configssession.GetUserTypeFromSession: user_type stored as a string.
GetUserTypeFromSession(sess) ==
  IF sess.user_type.t = "string"
  THEN [ok |-> TRUE, type |-> [t |-> "UserType", s |-> sess.user_type.s]]
  ELSE [ok |-> FALSE, type |-> [t |-> "UserType", s |-> ""]]

\* The session holds an identity: the Authenticated state.
Authenticated(sess) == sess.stored /\ GetUserIDFromSession(sess).ok

\* sess.Save()
Saved(sid, sess, f) ==
  IF f.save THEN sessions
  ELSE [sessions EXCEPT ![sid] = [sess EXCEPT !.stored = TRUE]]

\* sess.Destroy() on the store
Destroyed(store, sid, f) ==
  IF f.destroy THEN store ELSE [store EXCEPT ![sid] = NoSession]

NoFaults == [start |-> FALSE, save |-> FALSE, destroy |-> FALSE]

NoResp == [handler |-> "none", sid |-> 0, before |-> NoSession,
           faults |-> NoFaults, outcome |-> "none", user |-> 0, status |-> 0, redirect |-> "",
           flashKey |-> "", flash |-> "", destroyCalled |-> FALSE,
           next |-> FALSE, ctxUser |-> NoCtx, behind |-> FALSE,
           locals |-> 0, body |-> ""]

\* The record of a request to handler h on session sid; its faults are the
\* session-store calls of the request that failed.
Req(h, sid, f) == [NoResp EXCEPT !.handler = h, !.sid = sid,
                     !.before = sessions[sid]]

\* The request called SessionStart, Save, Destroy, with the failures of f.
Started(r, f) == [r EXCEPT !.faults.start = f.start]
SaveCalled(r, f) == [r EXCEPT !.faults.save = f.save]
DestroyCalled(r, f) == [r EXCEPT !.destroyCalled = TRUE,
                                 !.faults.destroy = f.destroy]

\* The latest request on session sid was passed on by AuthMiddleware: the
\* handler that runs next on sid is the downstream handler of that request.
PassedBy(sid) ==
  resp.handler = "AuthMiddleware" /\ resp.next /\ resp.sid = sid

\* c.Locals("userID") of a request on session sid, 0 when it is no uint.
\* AuthMiddleware sets the user context and no local, so a request it
\* passed has none; what other callers set is open.
LocalsOf(sid) == IF PassedBy(sid) THEN {0} ELSE {0} \cup UserIds

\* The request r of a handler behind AuthMiddleware carries the user
\* context the middleware set.
Behind(r) ==
  IF PassedBy(r.sid) THEN [r EXCEPT !.behind = TRUE, !.ctxUser = resp.ctxUser]
  ELSE r

\* c.Redirect(target, status) after SetFlashMessage(c, key, msg)
Redirect(r, status, target, key, msg) ==
  [r EXCEPT !.status = status, !.redirect = target, !.flashKey = key,
            !.flash = msg]

\* Nothing observed yet.
NoObs == [seen |-> FALSE, status |-> 0, redirect |-> "", flashKey |-> "",
          flash |-> "", sessionChanged |-> FALSE]

AuthInit ==
  /\ sessions = [sid \in Sids |-> NoSession]
  /\ resp = NoResp
  /\ loginObs = [e \in {"ErrInvalidCredentials", "ErrUserNotFound"} |-> NoObs]

\* Login requests: the body does not parse, a field is empty, or the form
\* is complete and Authenticate returns one of its outcomes.
LoginInputs ==
  {[form |-> fm, err |-> "nil", user |-> 0] :
     fm \in {"unparsed", "no_account", "no_password"}}
  \cup {[form |-> "complete", err |-> a.err, user |-> a.user] :
          a \in AuthOutcomes}

\* The flash message Login shows for an Authenticate error.
LoginErrMsg(err) ==
  CASE err = "ErrInvalidCredentials" -> "Kullanici adi veya sifre hatali."
    [] err = "ErrUserInactive" -> "Hesabiniz aktif degil."
    [] OTHER -> "Giris islemi sirasinda bir sorun olustu."

\* What a client can see of a response: status, target, flash, and whether
\* its session changed.
Observable(r, changed) ==
  [seen |-> TRUE, status |-> r.status, redirect |-> r.redirect,
   flashKey |-> r.flashKey, flash |-> r.flash, sessionChanged |-> changed]

LoginUnknownType_Kept(store, sid, f) == store

\* Login, default case of switch user.Type: the session just saved is
\* destroyed and the error of Destroy is dropped.
LoginUnknownType(store, sid, f) == Destroyed(store, sid, f)

Login(sid, in, f) ==
  LET r == [Req("Login", sid, f) EXCEPT !.outcome = in.err, !.user = in.user]
      u == UserById(in.user)
      sess == [sessions[sid] EXCEPT !.user_id = UintVal(u.id),
                 !.user_type = StringVal(UserTypeString(u.type)),
                 !.user_status = BoolVal(u.status),
                 !.user_name = StringVal(u.name)]
  IN IF in.form # "complete"
     THEN /\ resp' = Redirect([r EXCEPT !.outcome = in.form], 303,
                              "/auth/login", "error",
                              "Lutfen hesap adi ve sifre alanlarini doldurun.")
          /\ UNCHANGED <<sessions, loginObs>>
     ELSE IF in.err # "nil"
     THEN /\ resp' = Redirect(r, 303, "/auth/login", "error",
                              LoginErrMsg(in.err))
          /\ loginObs' = IF in.err \in DOMAIN loginObs
                         THEN [loginObs EXCEPT ![in.err] =
                                 Observable(resp', FALSE)]
                         ELSE loginObs
          /\ UNCHANGED sessions
     ELSE IF f.start
     THEN /\ resp' = Redirect(Started(r, f), 303, "/auth/login", "error",
                              "Oturum baslatilamadi.")
          /\ UNCHANGED <<sessions, loginObs>>
     ELSE IF f.save
     THEN /\ resp' = Redirect(SaveCalled(r, f), 303, "/auth/login", "error",
                              "Oturum bilgileri kaydedilemedi.")
          /\ UNCHANGED <<sessions, loginObs>>
     ELSE IF u.type = Panel
     THEN /\ sessions' = Saved(sid, sess, f)
          /\ resp' = Redirect(r, 302, "/panel/home", "success",
                              "Basariyla giris yapildi.")
          /\ UNCHANGED loginObs
     ELSE IF u.type = Dashboard
     THEN /\ sessions' = Saved(sid, sess, f)
          /\ resp' = Redirect(r, 302, "/dashboard/home", "success",
                              "Basariyla giris yapildi.")
          /\ UNCHANGED loginObs
     ELSE /\ sessions' = LoginUnknownType(Saved(sid, sess, f), sid, f)
          /\ resp' = Redirect(DestroyCalled(r, f), 303,
                              "/auth/login", "error",
                              "Hesabiniz icin tanimlanmis bir rol bulunamadi.")
          /\ UNCHANGED loginObs

\* middlewares.AuthMiddleware
AuthMiddleware(sid, prof, f) ==
  LET r == Req("AuthMiddleware", sid, f)
      uid == GetUserIDFromSession(sessions[sid])
  IN /\ IF f.start
        THEN /\ resp' = Redirect([Started(r, f) EXCEPT !.outcome = "start"],
                                 302, "/auth/login", "", "")
             /\ UNCHANGED sessions
        ELSE IF ~uid.ok
        THEN /\ resp' = Redirect([r EXCEPT !.outcome = "no_user_id"], 302,
                                 "/auth/login", "", "")
             /\ UNCHANGED sessions
        ELSE IF prof # "nil"
        THEN /\ sessions' = Destroyed(sessions, sid, f)
             /\ resp' = Redirect([DestroyCalled(r, f) EXCEPT
                                    !.outcome = prof, !.user = uid.id],
                                 302, "/auth/login", "", "")
        ELSE /\ resp' = [r EXCEPT !.outcome = "nil", !.user = uid.id,
                                  !.next = TRUE,
                                  !.ctxUser = [t |-> "uint", v |-> uid.id]]
             /\ UNCHANGED sessions
     /\ UNCHANGED loginObs

\* Mutant: the float64 case is missing.
ProfileUserID_NoFloat(sess) ==
  IF sess.user_id.t \in {"uint", "int"}
  THEN [ok |-> TRUE, id |-> sess.user_id.n]
  ELSE [ok |-> FALSE, id |-> 0]

\* The user id Profile reads from the session: uint, int or float64.
\* Every stored id was written as a uint, so an int or float64 read back is
\* not negative and has no fraction, and uint(v) keeps its value.
ProfileUserID(sess) ==
  CASE sess.user_id.t = "uint" -> [ok |-> TRUE, id |-> sess.user_id.n]
    [] sess.user_id.t = "int" -> [ok |-> TRUE, id |-> sess.user_id.n]
    [] sess.user_id.t = "float64" -> [ok |-> TRUE, id |-> sess.user_id.n]
    [] OTHER -> [ok |-> FALSE, id |-> 0]

\* Profile; locals is c.Locals("userID") as a uint, 0 when it is not one.
Profile(sid, locals, prof, f) ==
  LET r == Behind([Req("Profile", sid, f) EXCEPT !.user = locals,
                                                 !.locals = locals])
      uid == ProfileUserID(sessions[sid])
      userID == IF locals # 0 THEN locals ELSE uid.id
  IN /\ IF locals = 0 /\ f.start
        THEN /\ resp' = Redirect([Started(r, f) EXCEPT !.outcome = "start"],
                                 303, "/auth/login", "error",
                                 "Oturum hatasi, lutfen tekrar giris yapin.")
             /\ UNCHANGED sessions
        ELSE IF locals = 0 /\ ~uid.ok
        THEN /\ sessions' = Destroyed(sessions, sid, f)
             /\ resp' = Redirect([DestroyCalled(r, f) EXCEPT
                                    !.outcome = "no_user_id"], 303,
                                 "/auth/login", "error",
                                 "Gecersiz oturum bilgisi.")
        ELSE IF prof = "ErrUserNotFound"
        THEN /\ sessions' = IF f.start THEN sessions
                            ELSE Destroyed(sessions, sid, f)
             /\ resp' = Redirect([(IF f.start THEN Started(r, f)
                                   ELSE DestroyCalled(r, f)) EXCEPT
                                    !.outcome = prof, !.user = userID], 303,
                                 "/auth/login", "error",
                                 "Profil bilgileri bulunamadi.")
        ELSE IF prof # "nil"
        THEN /\ resp' = Redirect([r EXCEPT !.outcome = prof,
                                           !.user = userID], 303,
                                 "/auth/login", "error",
                                 "Profil bilgileri alinirken bir hata olustu.")
             /\ UNCHANGED sessions
        ELSE /\ resp' = [r EXCEPT !.outcome = "nil", !.user = userID,
                                  !.status = 200, !.body = "auth/profile"]
             /\ UNCHANGED sessions
     /\ UNCHANGED loginObs

\* Mutant: Logout redirects without destroying the session.
Logout_NoDestroy(sid, f) ==
  /\ resp' = Redirect(Req("Logout", sid, f), 302, "/auth/login", "success",
                      "Basariyla cikis yapildi.")
  /\ UNCHANGED <<sessions, loginObs>>

Logout(sid, f) ==
  LET r == Req("Logout", sid, f)
  IN /\ IF f.start
        THEN /\ resp' = Redirect([Started(r, f) EXCEPT !.outcome = "start"],
                                 302, "/auth/login", "success",
                                 "Basariyla cikis yapildi.")
             /\ UNCHANGED sessions
        ELSE /\ sessions' = Destroyed(sessions, sid, f)
             /\ resp' = Redirect([DestroyCalled(r, f) EXCEPT
                                    !.outcome = IF f.destroy THEN "destroy"
                                                ELSE "nil"], 302,
                                 "/auth/login", "success",
                                 IF f.destroy
                                 THEN "Cikis yapildi (ancak oturum temizlenirken bir sorun olustu)."
                                 ELSE "Basariyla cikis yapildi.")
     /\ UNCHANGED loginObs

\* UpdatePassword requests: the body does not parse, a field is empty, new
\* and confirm differ, or the form is complete and the service returns one
\* of its outcomes.
PasswordInputs ==
  {[form |-> fm, err |-> "nil"] : fm \in {"unparsed", "empty", "mismatch"}}
  \cup {[form |-> "complete", err |-> e] : e \in UpdateOutcomes}

LogsOut_Never(err) == FALSE

\* The service errors after which UpdatePassword ends the session
\* (logoutUser = true in the error switch).
LogsOut(err) == err = "ErrUserNotFound"

UpdatePassword(sid, locals, in, f) ==
  LET r == Behind([Req("UpdatePassword", sid, f) EXCEPT !.user = locals,
                                                        !.locals = locals])
      destroyed == IF f.start THEN sessions ELSE Destroyed(sessions, sid, f)
      rd == IF f.start THEN Started(r, f) ELSE DestroyCalled(r, f)
  IN /\ IF locals = 0
        THEN /\ sessions' = destroyed
             /\ resp' = Redirect([rd EXCEPT !.outcome = "no_user_id"], 303,
                                 "/auth/login", "error",
                                 "Gecersiz oturum bilgisi.")
        ELSE IF in.form \in {"unparsed", "empty"}
        THEN /\ resp' = Redirect([r EXCEPT !.outcome = in.form], 303,
                                 "/auth/profile", "error",
                                 "Lutfen tum sifre alanlarini doldurun.")
             /\ UNCHANGED sessions
        ELSE IF in.form = "mismatch"
        THEN /\ resp' = Redirect([r EXCEPT !.outcome = in.form], 303,
                                 "/auth/profile", "error",
                                 "Yeni sifreler uyusmuyor.")
             /\ UNCHANGED sessions
        ELSE IF LogsOut(in.err)
        THEN /\ sessions' = destroyed
             /\ resp' = Redirect([rd EXCEPT !.outcome = in.err], 303,
                                 "/auth/login", "error",
                                 "Kullanici bulunamadi.")
        ELSE IF in.err # "nil"
        THEN /\ resp' = Redirect([r EXCEPT !.outcome = in.err], 303,
                                 "/auth/profile", "error",
                                 IF in.err = "ErrCurrentPasswordIncorrect"
                                 THEN "Mevcut sifreniz hatali."
                                 ELSE IF in.err = "ErrOther"
                                 THEN "Sifre guncellenirken bilinmeyen bir hata olustu."
                                 ELSE in.err)
             /\ UNCHANGED sessions
        ELSE /\ sessions' = destroyed
             /\ resp' = Redirect([rd EXCEPT !.outcome = "nil"], 302,
                                 "/auth/login", "success",
                                 IF ~f.start /\ f.destroy
                                 THEN "Sifre guncellendi (ancak mevcut oturum sonlandirilamadi)."
                                 ELSE "Sifre basariyla guncellendi.")
     /\ UNCHANGED loginObs

\* The session backend hands the stored user_id back in another numeric
\* representation.
Reencode(sid, t) ==
  /\ sessions[sid].stored
  /\ sessions[sid].user_id.t \in NumberTypes \ {t}
  /\ sessions' = [sessions EXCEPT ![sid].user_id.t = t]
  /\ UNCHANGED <<resp, loginObs>>

\* routes.rootRedirector
rootRedirector(sid, f) ==
  LET r == Started(Req("rootRedirector", sid, f), f)
      uid == GetUserIDFromSession(sessions[sid])
      ut == GetUserTypeFromSession(sessions[sid])
  IN /\ resp' =
          IF f.start \/ ~uid.ok \/ ~ut.ok
          THEN Redirect([r EXCEPT !.outcome = "anonymous"], 302,
                        "/auth/login", "", "")
          ELSE IF ut.type = Panel
          THEN Redirect([r EXCEPT !.user = uid.id], 302, "/panel/home", "", "")
          ELSE IF ut.type = Dashboard
          THEN Redirect([r EXCEPT !.user = uid.id], 302, "/dashboard/home",
                        "", "")
          ELSE [r EXCEPT !.user = uid.id, !.status = 200,
                         !.body = "Gecersiz kullanici tipi"]
     /\ UNCHANGED <<sessions, loginObs>>

----------------------------------------------------------------------------
(***************************************************************************)
(* GetAll: filter, COUNT, validated ORDER BY, LIMIT/OFFSET, Find.          *)
(***************************************************************************)
VARIABLES
  allowedSortColumns,  \* the keys of the allow-list map
  query                \* what the store saw of the latest GetAll

listVars == <<allowedSortColumns, query>>

\* queryparams.DefaultSortBy, queryparams.DefaultOrderBy
DefaultSortBy == "id"
DefaultOrderBy == <<"d", "e", "s", "c">>

\* The columns of the entity table.
Columns == {"id", "created_at", "name", "status", "type"}

\* sortBy values of a request: columns, the empty string, and text that is
\* no column.
SortByInputs == {"id", "name", "", "id; DROP TABLE users"}

\* orderBy values of a request, as sequences of characters.
OrderByInputs == {<<"a", "s", "c">>, <<"D", "E", "S", "C">>,
                  <<"u", "p">>, <<>>}

LowerChar(ch) ==
  CASE ch = "A" -> "a" [] ch = "B" -> "b" [] ch = "C" -> "c"
    [] ch = "D" -> "d" [] ch = "E" -> "e" [] ch = "S" -> "s"
    [] OTHER -> ch

\* strings.ToLower
ToLower(str) == [i \in 1..Len(str) |-> LowerChar(str[i])]

\* turkishsearch: the case- and diacritic-insensitive form of a name.
Fold(str) == ToLower(str)

\* sub occurs in str
Contains(str, sub) ==
  \E k \in 0..(Len(str) - Len(sub)) :
    \A i \in 1..Len(sub) : str[k + i] = sub[i]

\* params.CalculateOffset(): (page - 1) * perPage, never negative
CalculateOffset(page, perPage) ==
  IF (page - 1) * perPage < 0 THEN 0 ELSE (page - 1) * perPage

\* The rows the filters of GetAll keep.
Filtered(params) ==
  {i \in Ids :
     /\ Live(rows[i])
     /\ params.name # <<>> => Contains(Fold(rows[i].name), Fold(params.name))
     /\ params.status # "" => rows[i].status = params.status
     /\ params.type # "" => rows[i].type = params.type}

\* Mutant: the requested column is used as it comes.
SortColumn_Unchecked(sortBy) == sortBy

\* if _, ok := r.allowedSortColumns[sortBy]; !ok { sortBy = DefaultSortBy }
SortColumn(sortBy) ==
  IF sortBy \in allowedSortColumns THEN sortBy ELSE DefaultSortBy

\* Mutant: the direction of the request is used as it comes.
SortDirection_Unchecked(orderBy) == ToLower(orderBy)

\* orderBy := strings.ToLower(params.OrderBy), defaulted unless asc or desc
SortDirection(orderBy) ==
  IF ToLower(orderBy) # <<"a", "s", "c">>
     /\ ToLower(orderBy) # <<"d", "e", "s", "c">>
  THEN DefaultOrderBy ELSE ToLower(orderBy)

\* The ids of S in the order of ORDER BY id (created_at grows with id).
Ordered(S, dir) ==
  LET asc == SortedSeq(S)
  IN IF dir = <<"a", "s", "c">> THEN asc
     ELSE [i \in 1..Len(asc) |-> asc[Len(asc) + 1 - i]]

\* LIMIT perPage OFFSET offset
Page(seq, limit, offset) ==
  SubSeq(seq, offset + 1, IF offset + limit > Len(seq) THEN Len(seq)
                          ELSE offset + limit)

NoQuery == [op |-> "none", sortBy |-> "", orderBy |-> <<>>, allowed |-> {},
            calls |-> <<>>,
            column |-> "", direction |-> <<>>, limit |-> 0, offset |-> 0,
            total |-> 0, items |-> <<>>, fault |-> "none", err |-> "none"]

ListParams == [name : {<<>>, <<"A">>}, status : {"", "done"}, type : {""},
               sortBy : SortByInputs, orderBy : OrderByInputs,
               page : {0, 2}, perPage : {1}]

ListInit ==
  /\ allowedSortColumns = {"id", "created_at"}
  /\ query = NoQuery

SetAllowedSortColumns(columns) ==
  /\ allowedSortColumns' = {columns[i] : i \in 1..Len(columns)}
  /\ UNCHANGED query

\* Mutant: the row query is issued whatever the count.
ShortCircuit_Never(total) == FALSE

\* if totalCount == 0 { return results, 0, nil }
ShortCircuit(total) == total = 0

\* The store fails a statement that orders by something that is no column;
\* countFail and findFail are failures of the store itself.
GetAll(params, countFail, findFail) ==
  LET q == [NoQuery EXCEPT !.op = "GetAll", !.sortBy = params.sortBy,
                           !.orderBy = params.orderBy,
                           !.allowed = allowedSortColumns]
      matched == Filtered(params)
      total == Cardinality(matched)
      column == SortColumn(params.sortBy)
      direction == SortDirection(params.orderBy)
      offset == CalculateOffset(params.page, params.perPage)
      failed == findFail \/ column \notin Columns
  IN /\ query' =
          IF countFail
          THEN [q EXCEPT !.calls = <<"count">>, !.fault = "count",
                         !.err = "store_error"]
          ELSE IF ShortCircuit(total)
          THEN [q EXCEPT !.calls = <<"count">>, !.err = "nil"]
          ELSE [q EXCEPT !.calls = <<"count", "find">>,
                         !.column = column, !.direction = direction,
                         !.limit = params.perPage, !.offset = offset,
                         !.total = total,
                         !.fault = IF findFail THEN "find" ELSE "none",
                         !.items = IF failed THEN <<>>
                                   ELSE Page(Ordered(matched, direction),
                                             params.perPage, offset),
                         !.err = IF failed THEN "store_error" ELSE "nil"]
     /\ UNCHANGED allowedSortColumns

\* GetCount(): SELECT count(*) of the table, no filter.
GetCount(countFail) ==
  /\ query' = [NoQuery EXCEPT !.op = "GetCount", !.calls = <<"count">>,
                               !.fault = IF countFail THEN "count" ELSE "none",
                               !.total = IF countFail THEN 0
                                         ELSE Cardinality({i \in Ids :
                                                             Live(rows[i])}),
                               !.err = IF countFail THEN "store_error"
                                       ELSE "nil"]
  /\ UNCHANGED allowedSortColumns

VARIABLE
  returned   \* per request: the finished Delete call of a race of two

vars == <<rows, call, probe, last, cancelled, returned, sessions, resp,
          loginObs, allowedSortColumns, query>>

\* No request has run the Delete of a race.
NotReturned == returned = [p \in Procs |-> IdleCall]

NotCancelled == cancelled = [p \in Procs |-> FALSE]

Init ==
  RepoInit /\ AuthInit /\ ListInit /\ NotCancelled /\ NotReturned /\ probe = FALSE

\* Concurrent requests: any request may take its next step at any time.
RepoNext ==
  \/ \E p \in Procs : Enter(p)
  \/ \E p \in Procs : Step(p)
  \/ \E p \in Procs : Crash(p)

Next == RepoNext /\ UNCHANGED <<authVars, listVars, cancelled, returned>>

Spec == Init /\ [][Next]_vars

SeqInit ==
  RepoInit /\ AuthInit /\ ListInit /\ NotCancelled /\ NotReturned /\ probe = TRUE

\* One call at a time: a call is entered only when no other call is running.
SeqRepoNext ==
  \/ Quiet /\ Enter(1)
  \/ Step(1)
  \/ Crash(1)

SeqNext == SeqRepoNext /\ UNCHANGED <<authVars, listVars, cancelled, returned>>

SeqSpec == SeqInit /\ [][SeqNext]_vars

\* One call at a time, with a caller that may cancel its context before a
\* call or between two statements of a call.
CancelRepoNext ==
  \/ (Quiet /\ Enter(1)) /\ UNCHANGED cancelled
  \/ Step(1) /\ UNCHANGED cancelled
  \/ Cancel(1)

CancelNext == CancelRepoNext /\ UNCHANGED <<authVars, listVars, returned>>

CancelSpec == SeqInit /\ [][CancelNext]_vars

\* The user context of request p in a race: actor p.
ActorCtx(p) == [t |-> "uint", v |-> p]

\* The caller of request p receives what its Delete returned.
Returns(p) ==
  returned' = IF call'[p].pc = "idle"
              THEN [returned EXCEPT ![p] = last']
              ELSE returned

\* Two requests with different actors: rows are created, then each request
\* runs one Delete, the statements of the two calls interleaving freely.
RaceRepoNext ==
  \/ \E e \in Entities :
        Quiet /\ NotReturned /\ Create(1, e, FALSE) /\ UNCHANGED returned
  \/ \E p \in Procs, id \in Ids :
        /\ returned[p] = IdleCall
        /\ Delete(p, ActorCtx(p), id)
        /\ UNCHANGED returned
  \/ \E p \in Procs, fail \in BOOLEAN : DeleteFirst(p, fail) /\ Returns(p)
  \/ \E p \in Procs, fail \in BOOLEAN : DeleteStamp(p, fail) /\ Returns(p)
  \/ \E p \in Procs, fail \in BOOLEAN : DeleteSoft(p, fail) /\ Returns(p)

RaceNext == RaceRepoNext /\ UNCHANGED <<authVars, listVars, cancelled>>

RaceSpec == SeqInit /\ [][RaceNext]_vars

\* Requests to the auth handlers, the middleware and the root redirector.
AuthRequests ==
  \/ \E sid \in Sids, in \in LoginInputs, f \in Faults : Login(sid, in, f)
  \/ \E sid \in Sids, prof \in ProfileOutcomes,
        f \in FaultsOf({"start", "destroy"}) : AuthMiddleware(sid, prof, f)
  \/ \E sid \in Sids, prof \in ProfileOutcomes,
        f \in FaultsOf({"start", "destroy"}) :
        \E locals \in LocalsOf(sid) : Profile(sid, locals, prof, f)
  \/ \E sid \in Sids, f \in FaultsOf({"start", "destroy"}) : Logout(sid, f)
  \/ \E sid \in Sids, in \in PasswordInputs,
        f \in FaultsOf({"start", "destroy"}) :
        \E locals \in LocalsOf(sid) : UpdatePassword(sid, locals, in, f)
  \/ \E sid \in Sids, f \in FaultsOf({"start"}) : rootRedirector(sid, f)
  \/ \E sid \in Sids, t \in NumberTypes : Reencode(sid, t)

AuthNext ==
  AuthRequests /\ UNCHANGED <<repoVars, listVars, cancelled, returned>>

AuthSpec == Init /\ [][AuthNext]_vars

\* Entities of the listing.
ListEntities == {[name |-> <<"a">>, status |-> "pending", type |-> "x"],
                 [name |-> <<"b">>, status |-> "done", type |-> "x"]}

\* The repository of one entity type: its allow-list is set, rows are
\* created, and the table is listed.
ListRequests ==
  \/ \E columns \in UNION {[1..n -> {"id", "name"}] : n \in 0..2} :
        SetAllowedSortColumns(columns) /\ UNCHANGED repoVars
  \/ \E params \in ListParams, countFail \in BOOLEAN :
        \E findFail \in (IF countFail THEN {FALSE} ELSE BOOLEAN) :
          GetAll(params, countFail, findFail) /\ UNCHANGED repoVars
  \/ \E countFail \in BOOLEAN : GetCount(countFail) /\ UNCHANGED repoVars
  \/ \E e \in ListEntities :
        Create(1, e, FALSE) /\ UNCHANGED listVars

ListNext == ListRequests /\ UNCHANGED <<authVars, cancelled, returned>>

ListSpec == Init /\ [][ListNext]_vars

----------------------------------------------------------------------------
(***************************************************************************)
(* Claims about the repository.                                            *)
(***************************************************************************)
\* The context carries no usable actor: no value, a value of another type,
\* or the uint 0.
NoActorIn(ctx) == ctx.t # "uint" \/ ctx.v = 0

DeleteOps == {"Delete", "BulkDelete"}

\* C1: Delete and BulkDelete called with a context that carries no actor
\* identifier, one of the wrong type, or the identifier 0 return the
\* missing-actor error, send no statement to the store (no read, no write)
\* and leave every row as it was; no such call ever gets past the check.
C1_MissingActorNoStoreAccess ==
  /\ \A p \in Procs :
        call[p].op \in DeleteOps => ~NoActorIn(call[p].ctx)
  /\ (last.op \in DeleteOps /\ NoActorIn(last.ctx)) =>
        /\ last.result = "missing_actor"
        /\ last.log = <<>>
        /\ rows = last.snap

C1_Witness ==
  /\ last.op \in DeleteOps
  /\ last.ctx = [t |-> "uint", v |-> 0]
  /\ last.result = "missing_actor"
  /\ \E i \in Ids : Live(rows[i])

\* The statements of a Delete or BulkDelete come in the order load, stamp,
\* soft delete: a soft delete follows a stamp of the same row that the store
\* did not fail, and a stamp follows a successful load or the successful
\* soft delete of the row before.
OrderedLog(log) ==
  \A i \in 1..Len(log) :
    /\ log[i].step = "delete" =>
          /\ i > 1
          /\ log[i-1].step = "stamp"
          /\ log[i-1].id = log[i].id
          /\ ~log[i-1].err
    /\ log[i].step = "stamp" =>
          /\ i > 1
          /\ ~log[i-1].err
          /\ \/ log[i-1].step \in {"load", "find"}
             \/ log[i-1].step = "delete" /\ log[i-1].id # log[i].id
    /\ log[i].step \in {"load", "find"} => i = 1

LastEv(c) == c.log[Len(c.log)]

\* The load of call c failed: the store failed it, or First found no live row.
LoadFailed(c) ==
  /\ LastEv(c).step \in {"load", "find"}
  /\ \/ LastEv(c).err
     \/ LastEv(c).step = "load" /\ ~Live(c.snap[c.id])

\* C2: within one Delete call, and for each row inside one BulkDelete call,
\* the steps are ordered load, stamp, soft delete; the soft delete is never
\* sent unless the stamp of that call returned success; when the load or the
\* stamp fails the call returns that error and has not soft-deleted the row.
C2_LoadStampDeleteOrder ==
  /\ \A p \in Procs : call[p].op \in DeleteOps => OrderedLog(call[p].log)
  /\ (last.op \in DeleteOps /\ last.log # <<>>) =>
        /\ OrderedLog(last.log)
        /\ LoadFailed(last) =>
              /\ last.result = IF LastEv(last).err THEN "store_error"
                               ELSE "not_found"
              /\ rows = last.snap
        /\ last.result = "not_found" => LoadFailed(last)
        /\ (LastEv(last).step = "stamp" /\ LastEv(last).err) =>
              /\ last.result = "store_error"
              /\ rows[LastEv(last).id] = last.snap[LastEv(last).id]
              /\ \A i \in 1..Len(last.log) :
                    ~(last.log[i].step = "delete"
                      /\ last.log[i].id = LastEv(last).id)

C2_Witness ==
  /\ last.op = "BulkDelete"
  /\ last.result = "store_error"
  /\ Len(last.log) = 4
  /\ LastEv(last).step = "stamp"

C4_SoftDeleteKeepsStampedRow ==
  (last.op = "Delete" /\ last.result = "ok") =>
    /\ last.snap[last.id].present
    /\ GetByIDResult(last.id, FALSE) = "not_found"
    /\ rows[last.id].present
    /\ rows[last.id].deleted_at
    /\ rows[last.id].deleted_by = last.actor

C4_Witness ==
  /\ last.op = "Delete"
  /\ last.result = "ok"
  /\ Live(last.snap[last.id])
  /\ last.snap[last.id].deleted_by # 0
  /\ last.snap[last.id].deleted_by # last.actor

\* The first k-1 targeted rows of call c are stamped by its actor and
\* soft-deleted.
PrefixDone(c, k) ==
  \A j \in 1..(k-1) :
    /\ rows[c.entities[j]].deleted_at
    /\ rows[c.entities[j]].deleted_by = c.actor

\* A BulkDelete whose write on its k-th row the store failed.
BulkDeleteWriteFailed(c) ==
  /\ c.op = "BulkDelete"
  /\ c.log # <<>>
  /\ LastEv(c).err
  /\ LastEv(c).step \in {"stamp", "delete"}

\* A store failure ends the call: it is the last statement of the log.
StopsAtFirstError(c) == \A i \in 1..(Len(c.log) - 1) : ~c.log[i].err

\* C5 as stated: when a store write fails while BulkDelete is processing the
\* k-th matching row, BulkDelete stops and returns that error, the rows before
\* the k-th are stamped and soft-deleted, and every other row is as it was.
C5_AsStated ==
  /\ \A p \in Procs : StopsAtFirstError(call[p])
  /\ StopsAtFirstError(last)
  /\ BulkDeleteWriteFailed(last) =>
        /\ last.result = "store_error"
        /\ PrefixDone(last, last.idx)
        /\ \A i \in Ids :
              (\A j \in 1..(last.idx - 1) : last.entities[j] # i)
                => rows[i] = last.snap[i]

\* C5, amended: as C5, except that the k-th row itself is stamped with the
\* actor (and not soft-deleted) when the failed write is its soft delete.
C5_PrefixDoneRestUntouched ==
  /\ \A p \in Procs : StopsAtFirstError(call[p])
  /\ StopsAtFirstError(last)
  /\ BulkDeleteWriteFailed(last) =>
        /\ last.result = "store_error"
        /\ PrefixDone(last, last.idx)
        /\ \A i \in Ids :
              (\A j \in 1..(last.idx - 1) : last.entities[j] # i) =>
                IF i = last.entities[last.idx] /\ LastEv(last).step = "delete"
                THEN rows[i] = [last.snap[i] EXCEPT !.deleted_by = last.actor]
                ELSE rows[i] = last.snap[i]

C5_Witness ==
  /\ BulkDeleteWriteFailed(last)
  /\ last.idx = 2
  /\ LastEv(last).step = "delete"
  /\ last.snap[last.entities[2]].deleted_by # last.actor

----------------------------------------------------------------------------
(***************************************************************************)
(* The session lifecycle.                                                  *)
(***************************************************************************)

\* C6: every handler or middleware path that redirects a request holding an
\* authenticated session to /auth/login has destroyed that session first:
\* after such a redirect the session is no longer in the store.
C6_ExitDestroysSession ==
  (/\ resp.handler \in {"Login", "Profile", "Logout", "UpdatePassword",
                        "AuthMiddleware"}
   /\ Authenticated(resp.before)
   /\ resp.redirect = "/auth/login")
  => (resp.destroyCalled /\ ~sessions[resp.sid].stored)

\* C7: AuthMiddleware runs the downstream handler only when the session
\* yields a user id and GetUserProfile succeeds, and then the context
\* carries that id; in every other case it destroys the session, does not
\* run the handler and redirects to /auth/login.
C7_PassOrDestroy ==
  resp.handler = "AuthMiddleware" =>
    IF resp.outcome = "nil"
    THEN /\ resp.next
         /\ GetUserIDFromSession(resp.before).ok
         /\ resp.ctxUser = [t |-> "uint",
                            v |-> GetUserIDFromSession(resp.before).id]
    ELSE /\ resp.destroyCalled
         /\ ~resp.next
         /\ resp.redirect = "/auth/login"

\* The session of the latest request holds the claims of user u.
HoldsClaimsOf(sess, u) ==
  /\ sess.stored
  /\ sess.user_id.t \in NumberTypes
  /\ sess.user_id.n = u.id
  /\ sess.user_type = StringVal(UserTypeString(u.type))
  /\ sess.user_status = BoolVal(u.status)
  /\ sess.user_name = StringVal(u.name)

\* Login ended in the success redirect of a Panel user.
PanelLoginDone ==
  /\ resp.handler = "Login"
  /\ resp.outcome = "nil"
  /\ resp.redirect = "/panel/home"

PanelLoginHoldsClaims ==
  PanelLoginDone =>
    /\ UserById(resp.user).type = Panel
    /\ HoldsClaimsOf(sessions[resp.sid], UserById(resp.user))
    /\ GetUserTypeFromSession(sessions[resp.sid]).ok
    /\ GetUserTypeFromSession(sessions[resp.sid]).type = Panel

C9_SameOutcomeForBothErrors ==
  (loginObs["ErrUserNotFound"].seen /\ loginObs["ErrInvalidCredentials"].seen)
  => loginObs["ErrUserNotFound"] = loginObs["ErrInvalidCredentials"]

----------------------------------------------------------------------------
(***************************************************************************)
(* Listing.                                                                *)
(***************************************************************************)

\* The latest GetAll issued its row query with a sortBy outside the
\* allow-list of that moment.
SortByRejected ==
  /\ "find" \in {query.calls[i] : i \in 1..Len(query.calls)}
  /\ query.sortBy \notin query.allowed

\* C10 as stated: a sortBy outside the allow-list gives no error on that
\* account and the default column in the ORDER BY; the column of the ORDER
\* BY is a member of the allow-list or the default, never the rejected
\* input.
C10_AsStated ==
  /\ SortByRejected =>
       /\ query.column = DefaultSortBy
       /\ query.column # query.sortBy
       /\ query.fault = "none" => query.err = "nil"
  /\ query.column # "" => query.column \in query.allowed \cup {DefaultSortBy}

\* C10 amended: as C10, except that a rejected sortBy that names the default
\* column is the column of the ORDER BY.
C10_RejectedSortByGivesDefault ==
  /\ SortByRejected =>
       /\ query.column = DefaultSortBy
       /\ query.sortBy # DefaultSortBy => query.column # query.sortBy
       /\ query.fault = "none" => query.err = "nil"
  /\ query.column # "" => query.column \in query.allowed \cup {DefaultSortBy}

\* A text that is no column was rejected and the rows came ordered by id.
C10_Witness ==
  /\ SortByRejected
  /\ query.sortBy = "id; DROP TABLE users"
  /\ query.column = DefaultSortBy
  /\ query.err = "nil"
  /\ Len(query.items) > 0

\* The latest statement of the store was the row query of a GetAll.
FindIssued ==
  /\ query.op = "GetAll"
  /\ "find" \in {query.calls[i] : i \in 1..Len(query.calls)}

\* str is word in some letter case.
InAnyCase(str, word) ==
  /\ Len(str) = Len(word)
  /\ \A i \in 1..Len(word) :
       \/ str[i] = word[i]
       \/ <<word[i], str[i]>> \in {<<"a", "A">>, <<"s", "S">>, <<"c", "C">>,
                                   <<"d", "D">>, <<"e", "E">>}

\* C11: an orderBy that is not asc or desc in any letter case gives the
\* default direction; the direction of the ORDER BY is always asc or desc.
C11_DirectionDefaulted ==
  FindIssued =>
    /\ query.direction \in {<<"a", "s", "c">>, <<"d", "e", "s", "c">>}
    /\ (~InAnyCase(query.orderBy, <<"a", "s", "c">>)
        /\ ~InAnyCase(query.orderBy, <<"d", "e", "s", "c">>))
       => query.direction = DefaultOrderBy
    /\ InAnyCase(query.orderBy, <<"a", "s", "c">>)
       => query.direction = <<"a", "s", "c">>
    /\ InAnyCase(query.orderBy, <<"d", "e", "s", "c">>)
       => query.direction = <<"d", "e", "s", "c">>

\* An orderBy that is no direction was replaced and the rows came back.
C11_Witness ==
  /\ FindIssued
  /\ query.orderBy = <<"u", "p">>
  /\ query.direction = DefaultOrderBy
  /\ query.err = "nil"
  /\ Len(query.items) > 0

\* C12: a GetAll whose COUNT is 0 returns an empty sequence, total 0 and no
\* error, and the store has seen the count and nothing else.
C12_ZeroCountSkipsFind ==
  (query.op = "GetAll" /\ query.fault # "count" /\ query.total = 0)
  => /\ query.calls = <<"count">>
     /\ query.items = <<>>
     /\ query.err = "nil"

\* A GetAll whose count was 0 returned after the count alone.
C12_Witness ==
  /\ query.op = "GetAll"
  /\ query.fault = "none"
  /\ query.total = 0
  /\ query.calls = <<"count">>
  /\ query.items = <<>>
  /\ query.err = "nil"

\* C13: GetCount returns, for every ListParams p, the number of rows the
\* filter of GetAll(p) keeps: the total GetAll(p) returns on the same rows.
C13_CountMatchesFilter ==
  [][(query'.op = "GetCount" /\ query' # query /\ query'.err = "nil")
     => \A p \in ListParams : query'.total = Cardinality(Filtered(p))]_vars

\* The one statement of the latest Update or BulkUpdate.
UpdateEv == last.log[1]

\* Row r with the fields of data and, for an actor above 0, updated_by.
Updated(r, data, actor) ==
  [r EXCEPT !.status = data.status,
            !.updated_by = IF actor > 0 THEN actor ELSE r.updated_by]

\* C14: Update returns the not-found error exactly when its write affects
\* zero rows, as it does for an absent or soft-deleted row, and then changes
\* no row; a write that reaches a live row applies the field map and sets
\* updated_by to actorID when actorID > 0, leaving it as it was when
\* actorID is 0, and changes no other row.
C14_UpdateNotFoundOrApplied ==
  last.op = "Update" =>
    /\ last.result = "not_found" <=> UpdateEv.n = 0
    /\ UpdateEv.n = 0 => rows = last.snap
    /\ ~Live(last.snap[last.id]) => UpdateEv.n = 0
    /\ (Live(last.snap[last.id]) /\ ~UpdateEv.err) =>
         /\ last.result = "ok"
         /\ rows = [last.snap EXCEPT ![last.id] =
                      Updated(last.snap[last.id], last.data, last.actor)]

\* An Update with actorID 0 changed the status of a row and left the
\* updated_by that an earlier Update had set.
C14_Witness ==
  /\ last.op = "Update"
  /\ last.result = "ok"
  /\ last.actor = 0
  /\ last.snap[last.id].updated_by > 0
  /\ rows[last.id].updated_by = last.snap[last.id].updated_by
  /\ rows[last.id].status # last.snap[last.id].status

\* C15: an Update whose write the store fails returns the store's error,
\* not the not-found error and not success.
C15_StoreErrorSurfaced ==
  (last.op = "Update" /\ UpdateEv.err) => last.result = "store_error"

\* The store failed no statement of the latest call.
NoStoreFailure == \A k \in 1..Len(last.log) : ~last.log[k].err

\* The rows after the field map and the stamp reached every live row that
\* matched the condition when the call was entered, and no other row.
BulkApplied ==
  rows = [i \in Ids |->
            IF /\ Live(last.snap[i])
               /\ \A k \in DOMAIN last.cond : last.snap[i][k] = last.cond[k]
            THEN Updated(last.snap[i], last.data, last.actor)
            ELSE last.snap[i]]

\* C16 as stated: BulkUpdate with actorID > 0 applies the field map and
\* updated_by = actorID to every row matching the condition and to no other
\* row and returns no error, also when no row matches.
C16_AsStated ==
  (last.op = "BulkUpdate" /\ last.actor > 0 /\ NoStoreFailure)
  => (last.result = "ok" /\ BulkApplied)

\* C16 amended: as C16 for a condition that names at least one column; with
\* an empty condition BulkUpdate returns an error, sends no statement and
\* changes nothing.
C16_BulkUpdateMatchingRows ==
  (last.op = "BulkUpdate" /\ last.actor > 0 /\ NoStoreFailure) =>
    IF DOMAIN last.cond = {}
    THEN last.result = "missing_where" /\ last.log = <<>> /\ rows = last.snap
    ELSE last.result = "ok" /\ BulkApplied

\* A BulkUpdate changed one of two live rows, the one that matched.
C16_Witness ==
  /\ last.op = "BulkUpdate"
  /\ last.actor > 0
  /\ last.result = "ok"
  /\ \A i \in Ids : Live(last.snap[i])
  /\ \E i, j \in Ids :
       /\ rows[i].updated_by = last.actor
       /\ rows[i].status # last.snap[i].status
       /\ rows[j] = last.snap[j]
       /\ rows[j].updated_by # last.actor

\* The statements of the call request 1 is inside, or has just finished.
LogNow == IF call[1].pc # "idle" THEN call[1].log ELSE <<>>

\* The error of a call that a cancelled context stopped: the error of the
\* statement the context failed, or an error raised before any statement.
CancellationError(res) ==
  res \in {"store_error", "missing_actor", "missing_where"}

\* C17: once the context of a request is cancelled, a repository operation
\* sends no further statement that the store runs, and the call returns an
\* error, never success or not-found; this holds for a BulkDelete cancelled
\* between two rows as well.
C17_CancelStopsCall ==
  [][(cancelled[1] /\ <<call, last>>' # <<call, last>>) =>
       LET done == call'[1].pc = "idle"
           log == IF done THEN last'.log ELSE call'[1].log
       IN /\ \A k \in (Len(LogNow) + 1)..Len(log) : log[k].err
          /\ done => CancellationError(last'.result)]_vars

\* GetUserProfile was called in the latest request.
ProfileLookedUp == resp.outcome \in ProfileOutcomes

LoggedOutOutcomes == {"nil", "ErrUserNotFound", "no_user_id"}

C20_IdentityCarried ==
  /\ (resp.handler = "AuthMiddleware" /\ resp.next) => ValidActor(resp.ctxUser)
  /\ (resp.handler \in {"UpdatePassword", "Profile"} /\ resp.behind
        /\ resp.faults = NoFaults) =>
       /\ resp.outcome # "no_user_id"
       /\ resp.user = resp.ctxUser.v

\* The latest request is a Login that did not end in the success redirect.
LoginFailed(r) == r.handler = "Login" /\ r.status # 302

EvOf(c, step) ==
  IF \E k \in 1..Len(c.log) : c.log[k].step = step
  THEN c.log[CHOOSE k \in 1..Len(c.log) : c.log[k].step = step]
  ELSE Ev("none", 0, FALSE, 0)

\* Both requests have run Delete on row id, which was live when each of
\* them entered, both calls have returned, and the store failed none of
\* their statements.
Raced(id) ==
  \A p \in Procs :
    /\ returned[p].pc = "done"
    /\ returned[p].op = "Delete"
    /\ returned[p].id = id
    /\ Live(returned[p].snap[id])
    /\ \A k \in 1..Len(returned[p].log) : ~returned[p].log[k].err

\* C22: when two requests with different actors run Delete on the same
\* existing row concurrently, the row ends soft-deleted with deleted_by the
\* actor of a call that returned success, and a call whose soft-delete
\* write changed no row does not return success after having overwritten
\* the deleted_by of the other call.  A call whose soft delete changed no
\* row found the row deleted by the other call, so it overwrote the other
\* call's deleted_by exactly when deleted_by is its own actor at the end.
C22_RacingDeletes ==
  \A id \in Ids :
    Raced(id) =>
      /\ rows[id].deleted_at
      /\ \E p \in Procs : /\ returned[p].result = "ok"
                          /\ rows[id].deleted_by = returned[p].actor
      /\ \A p \in Procs :
           (returned[p].result = "ok" /\ EvOf(returned[p], "delete").n = 0)
             => rows[id].deleted_by # returned[p].actor

\* The latest call is a Delete, by a valid actor, of a row that was
\* soft-deleted when the call was entered, and the store did not fail its
\* load.
DeleteOfDeletedRow ==
  /\ last.pc = "done"
  /\ last.op = "Delete"
  /\ ValidActor(last.ctx)
  /\ last.snap[last.id].present
  /\ last.snap[last.id].deleted_at
  /\ ~last.log[1].err

\* C23: Delete on a row that is already soft-deleted returns the not-found
\* error and performs no write: its only statement is the load, and the
\* row keeps the deleted_by and the deletion marker of the Delete that
\* removed it.
C23_DeleteOfDeletedRowNotFound ==
  DeleteOfDeletedRow =>
    /\ last.result = "not_found"
    /\ Len(last.log) = 1
    /\ last.log[1].step = "load"
    /\ rows = last.snap
    /\ rows[last.id].deleted_at
    /\ rows[last.id].deleted_by = last.snap[last.id].deleted_by

\* Actor B called Delete on a row that actor A had soft-deleted: not found,
\* and the row still names A.
C23_Witness ==
  /\ DeleteOfDeletedRow
  /\ last.result = "not_found"
  /\ rows[last.id].deleted_by # 0
  /\ rows[last.id].deleted_by # last.actor
  /\ rows[last.id].deleted_at

=============================================================================
